---- MODULE Spec2Model ----
(***************************************************************************)
(* Model of python_basic_template: the logging configuration builder      *)
(* (LoggingConfigProvider), the channel filter (LoggingChannelFilter),    *)
(* the callable handler (CallableHandler) and open_json.                  *)
(*                                                                         *)
(* Python strings are sequences of one-character strings, so that          *)
(* startswith, split and concatenation are computed character by           *)
(* character as the code does.                                             *)
(***************************************************************************)
EXTENDS Integers, Sequences, FiniteSets, TLC

VARIABLES
    RICH_AVAILABLE,      \* module flag _RICH_AVAILABLE
    instance,            \* LoggingConfigProvider._instance is not None
    project_name, debug, log_dir, use_rich, max_bytes, backups,
    handlers,            \* self.__handlers : name -> handler dict
    loggers,             \* self.__loggers  : name -> logger dict
    channel_mapping,     \* self.__channel_mapping : name -> alias
    config,              \* <<>> or <<d>>, d the last dict get_logging_config returned
    calls,               \* number of add_loggers and get_logging_config calls made
    filter_project_name, \* LoggingChannelFilter.project_name
    filter_mapping,      \* LoggingChannelFilter.channel_mapping, in dict order
    record,              \* <<>> or <<r>>, r the last record passed to filter
    env,                 \* <<>> (unset) or <<s>>: os.environ LOGGING_CUSTOM_CALLBACK
    world,               \* what importing and calling the referenced function does
    callback,            \* CallableHandler._callback
    delivered,           \* records the callback has been invoked with
    emits,               \* number of emit calls made
    outcome,             \* how the last CallableHandler call ended
    file,                \* the state of the file at file_path
    result               \* <<>> or <<r>>, r the outcome of the last open_json

vars == <<RICH_AVAILABLE, instance, project_name, debug, log_dir, use_rich,
          max_bytes, backups, handlers, loggers, channel_mapping, config, calls,
          filter_project_name, filter_mapping, record,
          env, world, callback, delivered, emits, outcome, file, result>>

builderVars == <<RICH_AVAILABLE, instance, project_name, debug, log_dir, use_rich,
                 max_bytes, backups, handlers, loggers, channel_mapping, config, calls>>
filterVars == <<filter_project_name, filter_mapping, record>>
handlerVars == <<env, world, callback, delivered, emits, outcome>>
jsonVars == <<file, result>>

----------------------------------------------------------------------------
(* Bounds *)

MaxCalls == 2        \* add_loggers and get_logging_config calls per behaviour
MaxBatch == 1        \* length of the logger_names list of one add_loggers call
MaxKeys == 2         \* entries of a channel mapping given to the filter
MaxEmits == 2        \* records emitted through one CallableHandler
MaxDocLen == 3       \* characters of the file read by open_json

----------------------------------------------------------------------------
(* Python str operations *)

Dot == "."

StartsWith(s, prefix) ==
    /\ Len(prefix) <= Len(s)
    /\ SubSeq(s, 1, Len(prefix)) = prefix

\* index of the first character of s equal to c, 0 when there is none
RECURSIVE FindFrom(_, _, _)
FindFrom(s, c, i) ==
    IF i > Len(s) THEN 0
    ELSE IF s[i] = c THEN i
    ELSE FindFrom(s, c, i + 1)

Find(s, c) == FindFrom(s, c, 1)

\* s.split(".")
RECURSIVE Split(_)
Split(s) ==
    LET i == Find(s, Dot)
    IN  IF i = 0 THEN <<s>>
        ELSE <<SubSeq(s, 1, i - 1)>> \o Split(SubSeq(s, i + 1, Len(s)))

\* s.split(".", 1)
SplitOnce(s) ==
    LET i == Find(s, Dot)
    IN  IF i = 0 THEN <<s>>
        ELSE <<SubSeq(s, 1, i - 1), SubSeq(s, i + 1, Len(s))>>

\* s.rsplit(".", 1) for an s that contains a "."
RECURSIVE RFindFrom(_, _, _)
RFindFrom(s, c, i) ==
    IF i = 0 THEN 0
    ELSE IF s[i] = c THEN i
    ELSE RFindFrom(s, c, i - 1)

RSplitOnce(s) ==
    LET i == RFindFrom(s, Dot, Len(s))
    IN  <<SubSeq(s, 1, i - 1), SubSeq(s, i + 1, Len(s))>>

\* s.strip(), whitespace being the character " "
RECURSIVE LStrip(_)
LStrip(s) ==
    IF s # <<>> /\ Head(s) = " " THEN LStrip(Tail(s)) ELSE s

RECURSIVE RStrip(_)
RStrip(s) ==
    IF s # <<>> /\ s[Len(s)] = " " THEN RStrip(SubSeq(s, 1, Len(s) - 1)) ELSE s

Strip(s) == RStrip(LStrip(s))

----------------------------------------------------------------------------
(* String literals of the program *)

EmptyStr == <<>>
RootName == <<"r", "o", "o", "t">>
ConsoleName == <<"c", "o", "n", "s", "o", "l", "e">>
FilePrefix == <<"f", "i", "l", "e", "_", "_">>
CustomPrefix == <<"c", "u", "s", "t", "o", "m", "_", "_">>
LogSuffix == <<".", "l", "o", "g">>
PathSep == <<"/">>
DefaultMaxBytes == 5 * 1024 * 1024
DefaultBackups == 3

----------------------------------------------------------------------------
(* Inputs *)

ProjectNames == {<<"p">>, <<"a">>}
LogsDir == <<"l", "o", "g", "s">>
TmpDir == <<"t", "m", "p">>
\* constructor arguments: the call of settings.py, the defaults with debug
\* off, and two calls that differ from them in every argument
Options ==
    {[log_dir |-> LogsDir, debug |-> TRUE, project_name |-> <<"p">>,
      use_rich |-> TRUE, max_bytes |-> DefaultMaxBytes, backups |-> DefaultBackups],
     [log_dir |-> LogsDir, debug |-> FALSE, project_name |-> <<"p">>,
      use_rich |-> TRUE, max_bytes |-> DefaultMaxBytes, backups |-> DefaultBackups],
     [log_dir |-> TmpDir, debug |-> FALSE, project_name |-> <<"a">>,
      use_rich |-> FALSE, max_bytes |-> 1024, backups |-> 1],
     [log_dir |-> TmpDir, debug |-> TRUE, project_name |-> <<"a">>,
      use_rich |-> FALSE, max_bytes |-> 1024, backups |-> 1]}
Levels == {"INFO", "DEBUG"}
\* the handlers argument: None and [] are {}; only membership is tested
HandlerArgs == {{}, {"console"}, {"file"}, {"custom"}, {"console", "file", "custom"},
                {"syslog"}}
LoggerNames == {<<"p">>, <<"p", ".", "a">>, <<"a">>, <<"p", ".">>}

\* sequences over S of length 0 .. n
SeqsUpTo(S, n) == UNION {[1..k -> S] : k \in 0..n}

----------------------------------------------------------------------------
(* LoggingConfigProvider *)

\* _root_level that ignores the debug flag
RootLevel_AlwaysInfo(dbg) == "INFO"

\* _root_level
RootLevel(dbg) == IF dbg THEN "DEBUG" ELSE "INFO"

\* _root_file_handler_name
RootFileHandlerName(pn) == FilePrefix \o pn

\* _root_handlers
RootHandlers(pn) == <<ConsoleName, RootFileHandlerName(pn)>>

\* _build_file_handler
BuildFileHandler(filename, level, mb, bk) ==
    [class |-> "logging.handlers.RotatingFileHandler",
     level |-> level,
     filename |-> filename,
     maxBytes |-> mb,
     backupCount |-> bk,
     encoding |-> "utf-8",
     formatter |-> "verbose",
     filters |-> <<"logging_channel">>]

\* log_dir / f"{stem}.log"
LogFile(dir, stem) == dir \o PathSep \o stem \o LogSuffix

\* h[name] = value on a dict
DictSet(d, k, v) == [x \in DOMAIN d \cup {k} |-> IF x = k THEN v ELSE d[x]]

EmptyDict == [x \in {} |-> 0]

\* the console entry written by _configure_root
ConsoleHandler(rich, dbg) ==
    IF rich
    THEN [class |-> "rich.logging.RichHandler",
          level |-> RootLevel(dbg),
          formatter |-> "rich",
          filters |-> <<"logging_channel">>,
          show_time |-> TRUE,
          show_level |-> TRUE,
          show_path |-> FALSE,
          markup |-> TRUE,
          rich_tracebacks |-> TRUE]
    ELSE [class |-> "logging.StreamHandler",
          level |-> RootLevel(dbg),
          formatter |-> "verbose",
          filters |-> <<"logging_channel">>]

\* _configure_root, on empty containers
ConfigureRoot(pn, dbg, dir, rich, mb, bk) ==
    LET h1 == DictSet(EmptyDict, ConsoleName, ConsoleHandler(rich, dbg))
        h2 == DictSet(h1, RootFileHandlerName(pn),
                      BuildFileHandler(LogFile(dir, pn), RootLevel(dbg), mb, bk))
    IN  [handlers |-> h2,
         channel_mapping |-> DictSet(EmptyDict, pn, pn)]

\* LoggingConfigProvider._alias_for
BuilderAliasFor(logger_name, pn) ==
    IF logger_name = pn THEN pn
    ELSE IF StartsWith(logger_name, pn \o <<Dot>>)
    THEN LET parts == Split(logger_name)
         IN  IF Len(parts) > 1 THEN parts[2] ELSE pn
    ELSE SplitOnce(logger_name)[1]

\* _ensure_file_handler without the membership test
EnsureFileHandler_Overwrite(h, alias, level, dir, mb, bk) ==
    LET name == FilePrefix \o alias
    IN  [name |-> name,
         handlers |-> DictSet(h, name, BuildFileHandler(LogFile(dir, alias), level, mb, bk))]

\* _ensure_file_handler: the name returned and the handlers map afterwards
EnsureFileHandler(h, alias, level, dir, mb, bk) ==
    LET name == FilePrefix \o alias
    IN  [name |-> name,
         handlers |-> IF name \notin DOMAIN h
                      THEN DictSet(h, name, BuildFileHandler(LogFile(dir, alias), level, mb, bk))
                      ELSE h]

\* _ensure_custom_handler that returns the name without creating the entry
EnsureCustomHandler_NoCreate(h, alias, level) ==
    [name |-> CustomPrefix \o alias, handlers |-> h]

\* _ensure_custom_handler: the name returned and the handlers map afterwards
EnsureCustomHandler(h, alias, level) ==
    LET name == CustomPrefix \o alias
    IN  [name |-> name,
         handlers |-> IF name \notin DOMAIN h
                      THEN DictSet(h, name,
                                   [class |-> "CallableHandler",
                                    level |-> level,
                                    formatter |-> "verbose",
                                    filters |-> <<"logging_channel">>])
                      ELSE h]

\* propagate whatever was attached
Propagate_Always(handler_names) == TRUE

\* propagate = not bool(handler_names)
Propagate(handler_names) == handler_names = <<>>

\* one iteration of the loop of add_loggers, on st = [handlers, loggers, channel_mapping]
AddOneLogger(st, lname, level, hs, pn, dir, mb, bk) ==
    LET alias == BuilderAliasFor(lname, pn)
        n1 == IF "console" \in hs THEN <<ConsoleName>> ELSE <<>>
        f == EnsureFileHandler(st.handlers, alias, level, dir, mb, bk)
        h2 == IF "file" \in hs THEN f.handlers ELSE st.handlers
        n2 == IF "file" \in hs THEN Append(n1, f.name) ELSE n1
        c == EnsureCustomHandler(h2, alias, level)
        h3 == IF "custom" \in hs THEN c.handlers ELSE h2
        n3 == IF "custom" \in hs THEN Append(n2, c.name) ELSE n2
    IN  [handlers |-> h3,
         channel_mapping |-> DictSet(st.channel_mapping, lname, alias),
         loggers |-> DictSet(st.loggers, lname,
                             [level |-> level,
                              handlers |-> n3,
                              propagate |-> Propagate(n3)])]

\* the loop of add_loggers over logger_names
RECURSIVE AddLoggersLoop(_, _, _, _, _, _, _, _)
AddLoggersLoop(st, names, level, hs, pn, dir, mb, bk) ==
    IF names = <<>> THEN st
    ELSE AddLoggersLoop(AddOneLogger(st, Head(names), level, hs, pn, dir, mb, bk),
                        Tail(names), level, hs, pn, dir, mb, bk)

\* _build_formatters
BuildFormatters ==
    [simple |-> [format |-> "%(logging_channel)s | %(levelname)s: %(message)s"],
     verbose |-> [format |-> "%(asctime)s %(logging_channel)s | %(levelname)s: %(name)s:%(lineno)d: %(message)s"],
     detailed |-> [format |-> "%(asctime)s %(logging_channel)s | %(levelname)s: pid=%(process)d tid=%(thread)d %(name)s:%(lineno)d: %(message)s"],
     rich |-> [format |-> "%(logging_channel)s | %(message)s"]]

\* the dict get_logging_config returns in the current state
LoggingConfig ==
    [version |-> 1,
     disable_existing_loggers |-> FALSE,
     filters |-> [logging_channel |->
                     [factory |-> "LoggingChannelFilter",
                      project_name |-> project_name,
                      channel_mapping |-> channel_mapping]],
     formatters |-> BuildFormatters,
     handlers |-> handlers,
     loggers |-> loggers,
     root |-> [level |-> RootLevel(debug), handlers |-> RootHandlers(project_name)]]

BuilderInit ==
    /\ RICH_AVAILABLE \in BOOLEAN
    /\ instance = FALSE
    /\ project_name = EmptyStr
    /\ debug = FALSE
    /\ log_dir = EmptyStr
    /\ use_rich = FALSE
    /\ max_bytes = 0
    /\ backups = 0
    /\ handlers = EmptyDict
    /\ loggers = EmptyDict
    /\ channel_mapping = EmptyDict
    /\ config = <<>>
    /\ calls = 0

\* LoggingConfigProvider(log_dir, debug, project_name, use_rich, max_bytes, backups):
\* __new__ creates the instance only when there is none, __init__ then runs
\* on the instance __new__ returned
Construct(dir, dbg, pn, rich, mb, bk) ==
    /\ instance' = TRUE
    /\ project_name' = pn
    /\ debug' = dbg
    /\ log_dir' = dir
    /\ use_rich' = (rich /\ RICH_AVAILABLE)
    /\ max_bytes' = mb
    /\ backups' = bk
    /\ LET r == ConfigureRoot(pn, dbg, dir, rich /\ RICH_AVAILABLE, mb, bk)
       IN  /\ handlers' = r.handlers
           /\ loggers' = EmptyDict
           /\ channel_mapping' = r.channel_mapping
    /\ UNCHANGED <<RICH_AVAILABLE, config, calls>>

AddLoggers(logger_names, level, hs) ==
    /\ instance
    /\ calls < MaxCalls
    /\ calls' = calls + 1
    /\ LET st == AddLoggersLoop([handlers |-> handlers, loggers |-> loggers,
                                 channel_mapping |-> channel_mapping],
                                logger_names, level, hs,
                                project_name, log_dir, max_bytes, backups)
       IN  /\ handlers' = st.handlers
           /\ loggers' = st.loggers
           /\ channel_mapping' = st.channel_mapping
    /\ UNCHANGED <<RICH_AVAILABLE, instance, project_name, debug, log_dir,
                   use_rich, max_bytes, backups, config>>

GetLoggingConfig ==
    /\ instance
    /\ calls < MaxCalls
    /\ calls' = calls + 1
    /\ config' = <<LoggingConfig>>
    /\ UNCHANGED <<RICH_AVAILABLE, instance, project_name, debug, log_dir,
                   use_rich, max_bytes, backups, handlers, loggers, channel_mapping>>

----------------------------------------------------------------------------
(* LoggingChannelFilter *)

FilterNames == {EmptyStr, RootName, RootName \o <<".", "a">>,
                <<"p">>, <<"p", ".", "a">>, <<"p", ".", "a", ".", "b">>,
                <<"a">>, <<"a", ".", "b">>, <<"a", "b">>, <<"b", ".", "a">>}
FilterKeys == {EmptyStr, RootName, <<"p">>, <<"p", ".", "a">>, <<"a">>, <<"a", ".", "b">>}
Aliases == {<<"x">>, <<"y">>}

\* dicts in insertion order: sequences of <<key, value>> with distinct keys
OrderedDicts(K, V, n) ==
    {d \in SeqsUpTo(K \X V, n) :
        \A i, j \in 1..Len(d) : i # j => d[i][1] # d[j][1]}

\* insert item kv into the sequence sorted by descending key length, after
\* the items of the same key length (sorted is stable)
RECURSIVE InsertByLen(_, _)
InsertByLen(sorted, kv) ==
    IF sorted = <<>> THEN <<kv>>
    ELSE IF Len(Head(sorted)[1]) >= Len(kv[1])
    THEN <<Head(sorted)>> \o InsertByLen(Tail(sorted), kv)
    ELSE <<kv>> \o sorted

\* the items in dict order, unsorted
SortedByLenDesc_Unsorted(items) == items

\* sorted(items, key=lambda kv: len(kv[0]), reverse=True)
RECURSIVE SortedByLenDesc(_)
SortedByLenDesc(items) ==
    IF items = <<>> THEN <<>>
    ELSE InsertByLen(SortedByLenDesc(SubSeq(items, 1, Len(items) - 1)),
                     items[Len(items)])

\* logger_name == lname or logger_name.startswith(lname + ".")
Matches(logger_name, lname) ==
    \/ logger_name = lname
    \/ StartsWith(logger_name, lname \o <<Dot>>)

\* the for loop of _alias_for: <<alias>> of the first matching item, <<>> if none
RECURSIVE FirstMatch(_, _)
FirstMatch(items, logger_name) ==
    IF items = <<>> THEN <<>>
    ELSE IF Matches(logger_name, Head(items)[1]) THEN <<Head(items)[2]>>
    ELSE FirstMatch(Tail(items), logger_name)

\* LoggingChannelFilter._alias_for
FilterAliasFor(logger_name, pn, mapping) ==
    IF logger_name = EmptyStr \/ logger_name = RootName THEN pn
    ELSE LET m == IF mapping # <<>>
                  THEN FirstMatch(SortedByLenDesc(mapping), logger_name)
                  ELSE <<>>
         IN  IF m # <<>> THEN m[1]
             ELSE IF logger_name = pn THEN pn
             ELSE IF StartsWith(logger_name, pn \o <<Dot>>)
             THEN LET parts == Split(logger_name)
                  IN  IF Len(parts) > 1 THEN parts[2] ELSE pn
             ELSE SplitOnce(logger_name)[1]

FilterInit ==
    /\ filter_project_name \in ProjectNames
    /\ filter_mapping \in OrderedDicts(FilterKeys, Aliases, MaxKeys)
    /\ record = <<>>

\* LoggingChannelFilter.filter(record), record.name = name
Filter(name) ==
    /\ record' = <<[name |-> name,
                    logging_channel |-> FilterAliasFor(name, filter_project_name,
                                                       filter_mapping)]>>
    /\ UNCHANGED <<filter_project_name, filter_mapping>>

----------------------------------------------------------------------------
(* CallableHandler *)

Records == {"r1", "r2"}

\* values of LOGGING_CUSTOM_CALLBACK
EnvValues == {EmptyStr, <<" ">>, <<"f">>, <<"m", ".", "f">>, <<" ", "m", ".", "f", " ">>,
              <<"m", ".", "g">>, <<"n", ".", "f">>, <<"m", ".">>, <<".", "f">>,
              <<"x", ".", "f">>}

\* what the attribute f of module m is: a function that returns, a function
\* that raises an Exception, a function that raises a BaseException that is
\* not an Exception (SystemExit, KeyboardInterrupt), a true value that is not
\* callable, a false value
Behaviours == {"returns", "raises_Exception", "raises_BaseException",
               "not_callable", "falsy"}

\* os.getenv("LOGGING_CUSTOM_CALLBACK", "")
GetEnv(e) == IF e = <<>> THEN EmptyStr ELSE e[1]

\* importlib.import_module: module m exists, module x exits the interpreter
\* when imported, any other name (the empty one included) is an import error
ImportModule(mod_name) ==
    IF mod_name = <<"m">> THEN "ok"
    ELSE IF mod_name = <<"x">> THEN "BaseException"
    ELSE "Exception"

\* getattr(mod, func_name, None) on module m, whose only attribute is f
GetAttr(func_name, w) == IF func_name = <<"f">> THEN <<w>> ELSE <<>>

\* _resolve_callback: the callback returned, or the exception that leaves it
ResolveCallback(e, w) ==
    LET path == Strip(GetEnv(e))
    IN  IF path = EmptyStr \/ Find(path, Dot) = 0
        THEN [raised |-> FALSE, value |-> <<>>]
        ELSE LET mod_name == RSplitOnce(path)[1]
                 func_name == RSplitOnce(path)[2]
                 imp == ImportModule(mod_name)
             IN  IF imp = "ok" THEN [raised |-> FALSE, value |-> GetAttr(func_name, w)]
                 ELSE IF imp = "Exception" THEN [raised |-> FALSE, value |-> <<>>]
                 ELSE [raised |-> TRUE, value |-> <<>>]

\* bool(self._callback)
Truthy(cb) == cb # <<>> /\ cb[1] # "falsy"

\* self._callback(record): what the call does
CallOutcome(cb) ==
    IF cb[1] = "returns" THEN "returns"
    ELSE IF cb[1] = "raises_BaseException" THEN "BaseException"
    ELSE "Exception"   \* raises_Exception, or TypeError of a non-callable

\* emit without the try/except around the call
EmitOutcome_NoTry(cb) ==
    IF Truthy(cb)
    THEN IF CallOutcome(cb) = "returns" THEN "emit_returned" ELSE "emit_raised"
    ELSE "emit_returned"

\* emit: whether it returns or raises
EmitOutcome(cb) ==
    IF Truthy(cb)
    THEN IF CallOutcome(cb) = "BaseException" THEN "emit_raised" ELSE "emit_returned"
    ELSE "emit_returned"

HandlerInit ==
    /\ env \in {<<>>} \cup {<<s>> : s \in EnvValues}
    /\ world \in Behaviours
    /\ callback = <<>>
    /\ delivered = <<>>
    /\ emits = 0
    /\ outcome = "unconstructed"

\* CallableHandler()
NewCallableHandler ==
    /\ outcome = "unconstructed"
    /\ LET r == ResolveCallback(env, world)
       IN  /\ callback' = r.value
           /\ outcome' = IF r.raised THEN "init_raised" ELSE "constructed"
    /\ UNCHANGED <<env, world, delivered, emits>>

\* CallableHandler.emit(record)
Emit(r) ==
    /\ outcome \in {"constructed", "emit_returned", "emit_raised"}
    /\ emits < MaxEmits
    /\ emits' = emits + 1
    /\ delivered' = IF Truthy(callback) /\ callback[1] # "not_callable"
                    THEN Append(delivered, r) ELSE delivered
    /\ outcome' = EmitOutcome(callback)
    /\ UNCHANGED <<env, world, callback>>

----------------------------------------------------------------------------
(* open_json *)

DocChars == {"{", "}", "1", "x"}
Docs == SeqsUpTo(DocChars, MaxDocLen)

\* the file at file_path
Files == {[kind |-> k, content |-> <<>>] :
              k \in {"missing", "unreadable", "directory", "undecodable"}}
         \cup {[kind |-> "regular", content |-> d] : d \in Docs}

\* index after the run of "1" characters that starts at index i
RECURSIVE EndOfNumber(_, _)
EndOfNumber(doc, i) ==
    IF i <= Len(doc) /\ doc[i] = "1" THEN EndOfNumber(doc, i + 1) ELSE i

\* json.loads on a document over DocChars: the value is an object {} or a
\* number 1..1; pos is the 0-based index where decoding fails
JsonLoad(doc) ==
    LET end == IF doc # <<>> /\ doc[1] = "{"
               THEN IF Len(doc) >= 2 /\ doc[2] = "}" THEN 3 ELSE -1
               ELSE IF doc # <<>> /\ doc[1] = "1" THEN EndOfNumber(doc, 1)
               ELSE 0
    IN  IF end = -1 THEN [ok |-> FALSE, pos |-> 1]          \* Expecting property name
        ELSE IF end = 0 THEN [ok |-> FALSE, pos |-> 0]      \* Expecting value
        ELSE IF end <= Len(doc) THEN [ok |-> FALSE, pos |-> end - 1]  \* Extra data
        ELSE [ok |-> TRUE, pos |-> 0]

\* the exception classes involved and their base classes
Bases(cls) ==
    CASE cls = "JSONDecodeError" -> {"JSONDecodeError", "ValueError", "Exception"}
      [] cls = "UnicodeDecodeError" -> {"UnicodeDecodeError", "ValueError", "Exception"}
      [] cls = "PermissionError" -> {"PermissionError", "OSError", "Exception"}
      [] cls = "FileNotFoundError" -> {"FileNotFoundError", "OSError", "Exception"}
      [] cls = "IsADirectoryError" -> {"IsADirectoryError", "OSError", "Exception"}

\* the try block: open(file_path) and json.load(f)
TryRead(f) ==
    CASE f.kind = "missing" -> [raised |-> <<"FileNotFoundError">>, doc |-> <<>>, pos |-> 0]
      [] f.kind = "unreadable" -> [raised |-> <<"PermissionError">>, doc |-> <<>>, pos |-> 0]
      [] f.kind = "directory" -> [raised |-> <<"IsADirectoryError">>, doc |-> <<>>, pos |-> 0]
      [] f.kind = "undecodable" -> [raised |-> <<"UnicodeDecodeError">>, doc |-> <<>>, pos |-> 0]
      [] f.kind = "regular" ->
            LET r == JsonLoad(f.content)
            IN  IF r.ok THEN [raised |-> <<>>, doc |-> f.content, pos |-> 0]
                ELSE [raised |-> <<"JSONDecodeError">>, doc |-> f.content, pos |-> r.pos]

\* the except clauses with the generic one first
ExceptClauses_GenericFirst == <<"Exception", "JSONDecodeError", "PermissionError">>

\* the except clauses, in order
ExceptClauses == <<"JSONDecodeError", "PermissionError", "Exception">>

\* the first except clause whose class the raised exception is an instance of
RECURSIVE FirstClause(_, _)
FirstClause(clauses, cls) ==
    IF clauses = <<>> THEN "uncaught"
    ELSE IF Head(clauses) \in Bases(cls) THEN Head(clauses)
    ELSE FirstClause(Tail(clauses), cls)

\* open_json(file_path): the data returned or the exception raised
OpenJsonResult(f) ==
    LET t == TryRead(f)
    IN  IF t.raised = <<>>
        THEN [kind |-> "returned", doc |-> t.doc, pos |-> 0]
        ELSE LET clause == FirstClause(ExceptClauses, t.raised[1])
             IN  IF clause = "JSONDecodeError"
                 THEN [kind |-> "JSONDecodeError", doc |-> t.doc, pos |-> t.pos]
                 ELSE [kind |-> clause, doc |-> <<>>, pos |-> 0]

JsonInit ==
    /\ file \in Files
    /\ result = <<>>

OpenJson ==
    /\ result = <<>>
    /\ result' = <<OpenJsonResult(file)>>
    /\ UNCHANGED file

----------------------------------------------------------------------------
(* Specifications *)

BuilderIdle ==
    /\ RICH_AVAILABLE = FALSE /\ instance = FALSE /\ project_name = EmptyStr
    /\ debug = FALSE /\ log_dir = EmptyStr /\ use_rich = FALSE
    /\ max_bytes = 0 /\ backups = 0
    /\ handlers = EmptyDict /\ loggers = EmptyDict /\ channel_mapping = EmptyDict
    /\ config = <<>> /\ calls = 0

FilterIdle ==
    /\ filter_project_name = EmptyStr /\ filter_mapping = <<>> /\ record = <<>>

HandlerIdle ==
    /\ env = <<>> /\ world = "returns" /\ callback = <<>> /\ delivered = <<>>
    /\ emits = 0 /\ outcome = "unconstructed"

JsonIdle ==
    /\ file = [kind |-> "missing", content |-> <<>>] /\ result = <<>>

\* the builder
Init == BuilderInit /\ FilterIdle /\ HandlerIdle /\ JsonIdle

Next ==
    \/ /\ \E o \in Options :
            Construct(o.log_dir, o.debug, o.project_name, o.use_rich,
                      o.max_bytes, o.backups)
       /\ UNCHANGED <<filterVars, handlerVars, jsonVars>>
    \/ /\ \E names \in SeqsUpTo(LoggerNames, MaxBatch), level \in Levels, hs \in HandlerArgs :
            AddLoggers(names, level, hs)
       /\ UNCHANGED <<filterVars, handlerVars, jsonVars>>
    \/ /\ GetLoggingConfig
       /\ UNCHANGED <<filterVars, handlerVars, jsonVars>>

Spec == Init /\ [][Next]_vars

\* the channel filter
FilterSpecInit == BuilderIdle /\ FilterInit /\ HandlerIdle /\ JsonIdle

FilterNext ==
    /\ \E name \in FilterNames : Filter(name)
    /\ UNCHANGED <<builderVars, handlerVars, jsonVars>>

FilterSpec == FilterSpecInit /\ [][FilterNext]_vars

\* the callable handler
HandlerSpecInit == BuilderIdle /\ FilterIdle /\ HandlerInit /\ JsonIdle

HandlerNext ==
    \/ /\ NewCallableHandler
       /\ UNCHANGED <<builderVars, filterVars, jsonVars>>
    \/ /\ \E r \in Records : Emit(r)
       /\ UNCHANGED <<builderVars, filterVars, jsonVars>>

HandlerSpec == HandlerSpecInit /\ [][HandlerNext]_vars

\* open_json
JsonSpecInit == BuilderIdle /\ FilterIdle /\ HandlerIdle /\ JsonInit

JsonNext ==
    /\ OpenJson
    /\ UNCHANGED <<builderVars, filterVars, handlerVars>>

JsonSpec == JsonSpecInit /\ [][JsonNext]_vars

----------------------------------------------------------------------------
(* Properties of LoggingConfigProvider, checked under Spec *)

OptionsOf == <<project_name, debug, log_dir, use_rich, max_bytes, backups>>

\* every entry of dict d is an entry of dict e
SubDict(d, e) == \A k \in DOMAIN d : k \in DOMAIN e /\ e[k] = d[k]

\* C1: once the instance exists, a construction call leaves its options as
\* they are and keeps every handler, logger and channel-mapping entry that was
\* registered (singleton law).
C1_SingletonLaw ==
    [][instance =>
          /\ OptionsOf' = OptionsOf
          /\ DOMAIN handlers \subseteq DOMAIN handlers'
          /\ DOMAIN loggers \subseteq DOMAIN loggers'
          /\ SubDict(channel_mapping, channel_mapping')]_vars

\* C3: every registered logger has propagate false iff its handler list is
\* non-empty; registering any name with handlers=[] gives propagate true and
\* with handlers=["console"] gives propagate false.
C3_PropagateDerived ==
    /\ \A n \in DOMAIN loggers :
          loggers[n].propagate = (Len(loggers[n].handlers) = 0)
    /\ instance =>
          \A n \in LoggerNames, level \in Levels :
             LET st == [handlers |-> handlers, loggers |-> loggers,
                        channel_mapping |-> channel_mapping]
                 none == AddLoggersLoop(st, <<n>>, level, {}, project_name,
                                        log_dir, max_bytes, backups)
                 cons == AddLoggersLoop(st, <<n>>, level, {"console"}, project_name,
                                        log_dir, max_bytes, backups)
             IN  /\ none.loggers[n].propagate = TRUE
                 /\ cons.loggers[n].propagate = FALSE

\* C3 witness: one logger registered without handlers and one with handlers
C3_Witness ==
    \E n, m \in DOMAIN loggers :
        /\ loggers[n].handlers = <<>> /\ loggers[n].propagate
        /\ loggers[m].handlers # <<>> /\ ~loggers[m].propagate

\* C4: running the file-handler (custom-handler) creation path a second time
\* for the same alias, from any logger name with that alias and with any
\* level, returns the same handler name and leaves the handlers map as the
\* first run left it, with the one entry for that name.
C4_EnsureIdempotent ==
    instance =>
       \A n1, n2 \in LoggerNames, l1, l2 \in Levels :
          LET a1 == BuilderAliasFor(n1, project_name)
              a2 == BuilderAliasFor(n2, project_name)
              f1 == EnsureFileHandler(handlers, a1, l1, log_dir, max_bytes, backups)
              f2 == EnsureFileHandler(f1.handlers, a2, l2, log_dir, max_bytes, backups)
              c1 == EnsureCustomHandler(handlers, a1, l1)
              c2 == EnsureCustomHandler(c1.handlers, a2, l2)
          IN  a1 = a2 =>
                 /\ f2.name = f1.name /\ f2.handlers = f1.handlers
                 /\ f1.name \in DOMAIN f1.handlers
                 /\ c2.name = c1.name /\ c2.handlers = c1.handlers
                 /\ c1.name \in DOMAIN c1.handlers

\* C4 witness: two loggers registered with different levels share one file
\* handler, which is not the root file handler
C4_Witness ==
    \E n, m \in DOMAIN loggers :
        /\ n # m
        /\ loggers[n].level # loggers[m].level
        /\ \E i \in 1..Len(loggers[n].handlers), j \in 1..Len(loggers[m].handlers) :
              /\ loggers[n].handlers[i] = loggers[m].handlers[j]
              /\ StartsWith(loggers[n].handlers[i], FilePrefix)
              /\ loggers[n].handlers[i] # RootFileHandlerName(project_name)
              /\ loggers[n].handlers[i] \in DOMAIN handlers

\* C5: the alias of every registered logger name, and so the alias in every
\* handler name file__<alias> and custom__<alias>, is non-empty.
C5_AliasNonEmpty ==
    /\ \A n \in DOMAIN channel_mapping : channel_mapping[n] # EmptyStr
    /\ FilePrefix \notin DOMAIN handlers
    /\ CustomPrefix \notin DOMAIN handlers

\* C6: the channel mapping only grows: an entry once recorded is in the
\* mapping after every later operation.
C6_MappingMonotone ==
    [][SubDict(channel_mapping, channel_mapping')]_vars

\* C7: the configuration get_logging_config returns has as root handlers
\* exactly console and file__<project_name>, the rotating file handler of
\* <log_dir>/<project_name>.log, and the root level is DEBUG iff debug is set.
C7_RootHandlers ==
    instance =>
       LET c == LoggingConfig
           rootfile == FilePrefix \o project_name
       IN  /\ c.root.handlers = <<ConsoleName, rootfile>>
           /\ c.root.level = (IF debug THEN "DEBUG" ELSE "INFO")
           /\ ConsoleName \in DOMAIN c.handlers
           /\ rootfile \in DOMAIN c.handlers
           /\ c.handlers[rootfile].class = "logging.handlers.RotatingFileHandler"
           /\ c.handlers[rootfile].filename = log_dir \o <<"/">> \o project_name \o LogSuffix
           /\ config # <<>> =>
                 /\ Len(config[1].root.handlers) = 2
                 /\ config[1].root.handlers[1] = ConsoleName
                 /\ config[1].root.handlers[2] =
                       FilePrefix \o config[1].filters.logging_channel.project_name
                 /\ config[1].root.level \in {"DEBUG", "INFO"}

\* C7 witness: a configuration returned after the project's own logger was
\* registered with a file handler at a level other than the root level
C7_Witness ==
    /\ config # <<>>
    /\ config[1] = LoggingConfig
    /\ \E n \in DOMAIN loggers :
          /\ FilePrefix \o project_name \in {loggers[n].handlers[i] : i \in 1..Len(loggers[n].handlers)}
          /\ loggers[n].level # config[1].root.level

\* every handler, formatter and filter name used in configuration c is defined in c
RefIntegrity(c) ==
    /\ \A i \in 1..Len(c.root.handlers) : c.root.handlers[i] \in DOMAIN c.handlers
    /\ \A n \in DOMAIN c.loggers :
          \A i \in 1..Len(c.loggers[n].handlers) :
             c.loggers[n].handlers[i] \in DOMAIN c.handlers
    /\ \A h \in DOMAIN c.handlers :
          /\ c.handlers[h].formatter \in DOMAIN c.formatters
          /\ \A i \in 1..Len(c.handlers[h].filters) :
                c.handlers[h].filters[i] \in DOMAIN c.filters

\* C10: every handler name listed under root or a logger of the returned
\* configuration is a key of its handlers map, and every formatter and filter
\* name a handler refers to is a key of its formatters / filters map.
C10_ReferentialIntegrity ==
    /\ instance => RefIntegrity(LoggingConfig)
    /\ config # <<>> => RefIntegrity(config[1])

\* C10 witness: a returned configuration with a logger that has the console,
\* a file and a custom handler
C10_Witness ==
    /\ config # <<>>
    /\ \E n \in DOMAIN config[1].loggers : Len(config[1].loggers[n].handlers) = 3

----------------------------------------------------------------------------
(* Properties of LoggingChannelFilter, checked under FilterSpec *)

\* name n equals key or starts with key + "."
NameUnder(n, key) ==
    \/ n = key
    \/ /\ Len(n) > Len(key)
       /\ \A i \in 1..Len(key) : n[i] = key[i]
       /\ n[Len(key) + 1] = "."

\* positions of the mapping entries whose key matches n
MatchingEntries(n) ==
    {i \in 1..Len(filter_mapping) : NameUnder(n, filter_mapping[i][1])}

\* the record's channel is the alias of the longest key matching its name
LongestKeyAlias(r) ==
    \A i \in MatchingEntries(r.name) :
        (\A j \in MatchingEntries(r.name) :
            Len(filter_mapping[j][1]) <= Len(filter_mapping[i][1]))
        => r.logging_channel = filter_mapping[i][2]

\* C2 as stated: for every name that matches a registered key, the filter's
\* alias is the alias of the longest matching key.
C2_original ==
    record # <<>> => LongestKeyAlias(record[1])

\* C2: for every name other than "" and "root" that matches a registered
\* key, the filter's alias is the alias of the longest matching key.
C2_LongestPrefixWins ==
    (record # <<>> /\ record[1].name \notin {EmptyStr, RootName})
        => LongestKeyAlias(record[1])

\* C2 witness: a name matched by two keys with different aliases, the shorter
\* key first in the dict
C2_Witness ==
    /\ record # <<>>
    /\ record[1].name \notin {EmptyStr, RootName}
    /\ \E i, j \in MatchingEntries(record[1].name) :
          /\ i < j
          /\ Len(filter_mapping[i][1]) < Len(filter_mapping[j][1])
          /\ filter_mapping[i][2] # filter_mapping[j][2]
          /\ record[1].logging_channel = filter_mapping[j][2]

----------------------------------------------------------------------------
(* Properties of CallableHandler, checked under HandlerSpec *)

\* LOGGING_CUSTOM_CALLBACK is unset or blank, has no ".", or names a module
\* whose import fails or an attribute the module does not have
Unresolvable ==
    \/ env = <<>>
    \/ env[1] \in {EmptyStr, <<" ">>, <<"f">>, <<"n", ".", "f">>, <<"m", ".", "g">>,
                   <<"m", ".">>, <<".", "f">>}

\* the import named by LOGGING_CUSTOM_CALLBACK ends the interpreter
ImportExits == env # <<>> /\ env[1] = <<"x", ".", "f">>

\* C8 as stated: construction never fails, an unresolvable reference leaves
\* no callback and emit does nothing, and emit always returns normally.
C8_original ==
    /\ outcome \notin {"init_raised", "emit_raised"}
    /\ (outcome # "unconstructed" /\ (Unresolvable \/ ImportExits)) =>
          callback = <<>> /\ delivered = <<>>

\* C8: an unresolvable reference leaves no callback and emit does nothing; a
\* held callback is invoked with each record and an Exception it raises is
\* discarded; construction and emit raise only a BaseException that is not an
\* Exception, raised by the import or by the callback.
C8_NeverPropagatesException ==
    /\ (outcome # "unconstructed" /\ Unresolvable) =>
          callback = <<>> /\ delivered = <<>> /\ outcome # "emit_raised"
    /\ outcome = "init_raised" => ImportExits
    /\ outcome = "emit_raised" => callback = <<"raises_BaseException">>
    /\ callback \in {<<"returns">>, <<"raises_Exception">>} =>
          /\ Len(delivered) = emits
          /\ outcome \in {"constructed", "emit_returned"}

\* C8 witness: emit returned after a callback that raised an Exception was
\* invoked with the record
C8_Witness ==
    /\ outcome = "emit_returned"
    /\ callback = <<"raises_Exception">>
    /\ Len(delivered) = emits /\ emits > 0

----------------------------------------------------------------------------
(* Properties of open_json, checked under JsonSpec *)

\* the documents over DocChars that are JSON: {} and the numbers 1, 11, ...
IsJson(doc) ==
    \/ doc = <<"{", "}">>
    \/ doc # <<>> /\ \A i \in 1..Len(doc) : doc[i] = "1"

\* C9: malformed JSON fails with JSONDecodeError carrying the document and the
\* position, an unreadable file with PermissionError, every other failure
\* with the generic Exception; the document "{x" fails at position 1.
C9_ErrorClassification ==
    result # <<>> =>
       /\ (file.kind = "regular" /\ ~IsJson(file.content)) =>
             /\ result[1].kind = "JSONDecodeError"
             /\ result[1].doc = file.content
             /\ result[1].pos \in 0..Len(file.content)
       /\ file.content = <<"{", "x">> => result[1].pos = 1
       /\ file.kind = "unreadable" => result[1].kind = "PermissionError"
       /\ file.kind \in {"missing", "directory", "undecodable"} =>
             result[1].kind = "Exception"
       /\ (file.kind = "regular" /\ IsJson(file.content)) =>
             result[1].kind = "returned"

\* C9 witness: open_json has failed on a file whose content starts "{x"
C9_Witness ==
    /\ result # <<>>
    /\ file.kind = "regular"
    /\ Len(file.content) >= 2 /\ file.content[1] = "{" /\ file.content[2] = "x"
    /\ result[1].kind = "JSONDecodeError"

====
